---- MODULE Spec2Model ----
(***************************************************************************)
(* Model of mlnode/iotdb/mlnode/process/task.py: ForecastingTrainingTask   *)
(* (the task orchestrator) and TrainingTrialObjective (the objective run   *)
(* by the search driver once per trial).                                   *)
(*                                                                         *)
(* Every task is one OS process.  The external collaborators (the trial    *)
(* executor ForecastingTrainingTrial, the model factory, the config-node   *)
(* client and the optuna study) are modelled by their outcomes: a returned *)
(* value or a raised exception, chosen nondeterministically.               *)
(***************************************************************************)
EXTENDS Integers, Sequences, FiniteSets, TLC

\* ---------------------------------------------------------------- bounds
MaxLoss == 2        \* the trial executor returns a loss in 1..MaxLoss
MaxLR   == 2        \* suggest_float samples one of MaxLR grid points

\* ------------------------------------------------------- program constants
N_TRIALS == 20      \* study.optimize(..., n_trials=20)

FINISHED == "FINISHED"      \* TrainingState.FINISHED

Tasks  == {"m1", "m2"}      \* model identifiers, one task (process) each
Losses == 1..MaxLoss
Rates  == 1..MaxLR
PIDs   == {4711, 4712}     \* the process identifiers os.getpid() can return

NoTrial == -1               \* "no trial yet" for the study's best trial
Unset   == "unset"          \* a key absent from the TaskConfig dict
NoError == "none"

\* Exceptions of the collaborators (all subclasses of Exception)
KeyError       == "KeyError"        \* task_trial_map[model_id] is missing
TrialInitError == "TrialInitError"  \* ForecastingTrainingTrial(...) raised
TrialError     == "TrialError"      \* ForecastingTrainingTrial.start() raised
ModelError     == "ModelError"      \* create_forecast_model(...) raised
RpcError       == "RpcError"        \* update_model_state(...) raised

\* ------------------------------------------------------------------ state
VARIABLES
    spawned,            \* the tasks the outer scheduler has spawned
    pid,                \* os.getpid() of each task's process
    pc,                 \* where each task's process is
    task_configs,       \* the TaskConfig dict of each task (mutated in place)
    task_trial_map,     \* the shared TrialRegistry: model id -> dict
    study,              \* the optuna study of each task
    cur_trial,          \* trial._trial_id of the objective invocation under way
    borrowed,           \* the task holds a config-node client handle
    updates,            \* update_model_state calls received, in order
    warnings,           \* logger.warn lines of each process, in order
    exc,                \* the exception in flight in each process
    raised,             \* the exception that reached each task's caller
    executor_starts,    \* history: <<trial id, sequence number>> of the executors started
    map_writes,         \* history: the registry writes <<model, key>> of each task, in order
    objective_calls,    \* history: number of objective invocations begun
    objective_returns,  \* history: number of objective invocations returned
    firstSeen,          \* history: loss value -> first trial that returned it
    config_ids,         \* history: trial ids written into each TaskConfig, in order
    suggested,          \* the value trial.suggest_float gave the latest trial
    env                 \* what the collaborators can return: losses and rates

vars == <<spawned, pid, pc, task_configs, task_trial_map, study, cur_trial,
          borrowed, updates, warnings, exc, raised, executor_starts,
          map_writes, objective_calls, objective_returns, firstSeen, config_ids,
          suggested, env>>

\* ------------------------------------------------------------- dict keys
\* Python dict keys of two types: the str 'tid_0' and the int 0 are
\* different keys.
StrKey(s) == [str |-> s]
IntKey(n) == [int |-> n]

\* mutation: every trial gets the same identifier
TrialId_const(n) == "tid_0"

\* 'tid_' + str(n)
TrialId(n) == "tid_" \o ToString(n)

\* d[key] = value on a dict kept as its set of items
DictPut(d, key, value) ==
    {e \in d : e.key # key} \cup {[key |-> key, pid |-> value]}

DictKeys(d) == {e.key : e \in d}

\* ------------------------------------------------------- the search driver
\* optuna.create_study(direction='minimize') with its in-memory storage:
\* trial ids count from 0, the best trial is replaced only by a strictly
\* smaller value.
NewStudy == [next_trial_id |-> 0, best_trial_id |-> NoTrial, best_value |-> 0]

StudyAsk(s) == [s EXCEPT !.next_trial_id = @ + 1]

StudyTell(s, trial_id, loss) ==
    IF s.best_trial_id = NoTrial \/ loss < s.best_value
    THEN [s EXCEPT !.best_trial_id = trial_id, !.best_value = loss]
    ELSE s

\* ------------------------------------------------------------------- Init
InjectivePids == {f \in [Tasks -> PIDs] : \A a, b \in Tasks : a # b => f[a] # f[b]}

InitCommon ==
    /\ pid \in InjectivePids
    /\ pc = [t \in Tasks |-> "new"]
    /\ task_configs \in {c \in [Tasks -> [model_id : Tasks, tuning : BOOLEAN,
                                           trial_id : {Unset}, learning_rate : {0}]] :
                            \A t \in Tasks : /\ c[t].model_id = t
                                             /\ t \notin spawned => ~c[t].tuning}
    /\ \E D \in SUBSET spawned : task_trial_map = [m \in D |-> {}]
    /\ study = [t \in Tasks |-> NewStudy]
    /\ cur_trial = [t \in Tasks |-> NoTrial]
    /\ borrowed = [t \in Tasks |-> FALSE]
    /\ updates = <<>>
    /\ warnings = [t \in Tasks |-> <<>>]
    /\ exc = [t \in Tasks |-> NoError]
    /\ raised = [t \in Tasks |-> NoError]
    /\ executor_starts = [t \in Tasks |-> <<>>]
    /\ map_writes = [t \in Tasks |-> <<>>]
    /\ objective_calls = [t \in Tasks |-> 0]
    /\ objective_returns = [t \in Tasks |-> 0]
    /\ firstSeen = [t \in Tasks |-> [v \in Losses |-> NoTrial]]
    /\ config_ids = [t \in Tasks |-> <<>>]
    /\ suggested = [t \in Tasks |-> 0]

\* one task, collaborators free to return any loss and any rate
Init ==
    /\ spawned = {"m1"}
    /\ env = [losses |-> Losses, rates |-> Rates]
    /\ InitCommon

\* two tasks running as two processes on one registry; their executors
\* return one loss and one rate, and may fail
InitTwo ==
    /\ spawned = Tasks
    /\ env = [losses |-> {1}, rates |-> {1}]
    /\ InitCommon

\* ------------------------------------------------- lines of task.py, named
default_trial_id == "tid_0"

\* mutation: the objective fills in a copy and leaves the shared dict alone
SetTrialConfig_copy(cfg, lr, n) == cfg

\* trial_configs = self.trial_configs (the same dict, not a copy);
\* trial_configs['learning_rate'] = ...; trial_configs['trial_id'] = 'tid_' + str(n)
SetTrialConfig(cfg, lr, n) ==
    [cfg EXCEPT !.learning_rate = lr, !.trial_id = TrialId(n)]

\* mutation: a missing inner dict is not noticed
MissingInner_never(map, m) == FALSE

\* task_trial_map[model_id] raises KeyError: the task has no inner dict
MissingInner(map, m) == m \notin DOMAIN map

\* mutation: the default trial is registered under the bare sequence number
RegisterDefault_int(map, m, p) ==
    [map EXCEPT ![m] = DictPut(@, IntKey(0), p)]

\* self.task_trial_map[self.model_id][self.default_trial_id] = os.getpid()
RegisterDefault(map, m, p) ==
    [map EXCEPT ![m] = DictPut(@, StrKey(default_trial_id), p)]

\* mutation: the registry is rebuilt around the writer's own dict, the other
\* tasks' dicts are emptied
RegisterTrial_clobber(map, m, n, p) ==
    [x \in DOMAIN map |-> IF x = m THEN DictPut(map[m], IntKey(n), p) ELSE {}]

\* mutation: the trial's sequence number is stored in place of the process id
RegisterTrial_seq(map, m, n, p) ==
    [map EXCEPT ![m] = DictPut(@, IntKey(n), n)]

\* mutation: the task's dict is replaced instead of updated
RegisterTrial_reset(map, m, n, p) ==
    [map EXCEPT ![m] = {[key |-> IntKey(n), pid |-> p]}]

\* self.task_trial_map[self.trial_configs['model_id']][trial._trial_id] = os.getpid()
RegisterTrial(map, m, n, p) ==
    [map EXCEPT ![m] = DictPut(@, IntKey(n), p)]

\* mutation: the last trial is reported instead of the best one
BestTrialId_last(s) == TrialId(s.next_trial_id - 1)

\* best_trial_id = 'tid_' + str(self.study.best_trial._trial_id)
BestTrialId(s) == TrialId(s.best_trial_id)

\* mutation: the budget is one trial long
BudgetSpent_late(s) == s.next_trial_id >= N_TRIALS + 1

\* mutation: the budget is one trial short
BudgetSpent_short(s) == s.next_trial_id >= N_TRIALS - 1

\* study.optimize(..., n_trials=20) has run its budget of trials
BudgetSpent(s) == s.next_trial_id >= N_TRIALS

\* mutation: the call is sent a second time
UpdateModelState_retry(calls, m, state, tid) ==
    Append(Append(calls, [model_id |-> m, state |-> state, trial_id |-> tid]),
           [model_id |-> m, state |-> state, trial_id |-> tid])

\* confignode_client.update_model_state(model_id, state, trial_id), as received
UpdateModelState(calls, m, state, tid) ==
    Append(calls, [model_id |-> m, state |-> state, trial_id |-> tid])

\* mutation: the handler logs the error twice
Warn_twice(lines, e) == Append(Append(lines, e), e)

\* mutation: the handler re-raises without logging
Warn_silent(lines, e) == lines

\* logger.warn(e)
Warn(lines, e) == Append(lines, e)

\* ---------------------------------------------------------------- actions
\* mutation: construction only borrows the client (and creates the study);
\* the direct-mode bookkeeping is left out of __init__
Construct_lazy(t) ==
    /\ t \in spawned
    /\ pc[t] = "new"
    /\ borrowed' = [borrowed EXCEPT ![t] = TRUE]
    /\ study' = [study EXCEPT ![t] = NewStudy]
    /\ pc' = [pc EXCEPT ![t] = "constructed"]
    /\ UNCHANGED <<spawned, pid, task_configs, task_trial_map, cur_trial, updates,
                   warnings, exc, raised, executor_starts, map_writes,
                   objective_calls, objective_returns, firstSeen, config_ids,
                   suggested, env>>

\* ForecastingTrainingTask.__init__
Construct(t) ==
    /\ t \in spawned
    /\ pc[t] = "new"
    /\ borrowed' = [borrowed EXCEPT ![t] = TRUE]
    /\ IF task_configs[t].tuning
       THEN /\ study' = [study EXCEPT ![t] = NewStudy]
            /\ pc' = [pc EXCEPT ![t] = "constructed"]
            /\ UNCHANGED <<task_configs, task_trial_map, map_writes, raised, config_ids>>
       ELSE /\ task_configs' = [task_configs EXCEPT ![t].trial_id = default_trial_id]
            /\ config_ids' = [config_ids EXCEPT ![t] = Append(@, default_trial_id)]
            /\ \E built \in BOOLEAN :
                 IF ~built
                 THEN /\ raised' = [raised EXCEPT ![t] = TrialInitError]
                      /\ pc' = [pc EXCEPT ![t] = "init_raised"]
                      /\ UNCHANGED <<task_trial_map, map_writes>>
                 ELSE IF MissingInner(task_trial_map, task_configs[t].model_id)
                 THEN /\ raised' = [raised EXCEPT ![t] = KeyError]
                      /\ pc' = [pc EXCEPT ![t] = "init_raised"]
                      /\ UNCHANGED <<task_trial_map, map_writes>>
                 ELSE /\ task_trial_map' = RegisterDefault(task_trial_map,
                              task_configs[t].model_id, pid[t])
                      /\ map_writes' = [map_writes EXCEPT ![t] = Append(@,
                              <<task_configs[t].model_id, StrKey(default_trial_id)>>)]
                      /\ pc' = [pc EXCEPT ![t] = "constructed"]
                      /\ UNCHANGED raised
            /\ UNCHANGED study
    /\ UNCHANGED <<spawned, pid, cur_trial, updates, warnings, exc,
                   executor_starts, objective_calls, objective_returns, firstSeen,
                   suggested, env>>

\* ForecastingTrainingTask.__call__: entering the try block
Call(t) ==
    /\ pc[t] = "constructed"
    /\ pc' = [pc EXCEPT ![t] = IF task_configs[t].tuning THEN "optimize" ELSE "direct"]
    /\ UNCHANGED <<spawned, pid, task_configs, task_trial_map, study, cur_trial,
                   borrowed, updates, warnings, exc, raised, executor_starts,
                   map_writes, objective_calls, objective_returns, firstSeen, config_ids,
                   suggested, env>>

\* self.trial.start() is entered (direct mode)
DirectStart(t) ==
    /\ pc[t] = "direct"
    /\ executor_starts' = [executor_starts EXCEPT ![t] = Append(@, <<task_configs[t].trial_id, cur_trial[t]>>)]
    /\ pc' = [pc EXCEPT ![t] = "direct_running"]
    /\ UNCHANGED <<spawned, pid, task_configs, task_trial_map, study, cur_trial,
                   borrowed, updates, warnings, exc, raised,
                   map_writes, objective_calls, objective_returns, firstSeen, config_ids,
                   suggested, env>>

\* self.trial.start() returns a loss, which is discarded, or raises
DirectEnd(t) ==
    /\ pc[t] = "direct_running"
    /\ \/ /\ \E loss \in env.losses : pc' = [pc EXCEPT ![t] = "report"]
          /\ UNCHANGED exc
       \/ /\ exc' = [exc EXCEPT ![t] = TrialError]
          /\ pc' = [pc EXCEPT ![t] = "except"]
    /\ UNCHANGED <<spawned, pid, task_configs, task_trial_map, study, cur_trial,
                   borrowed, updates, warnings, raised, executor_starts,
                   map_writes, objective_calls, objective_returns, firstSeen, config_ids,
                   suggested, env>>

\* update_model_state(self.model_id, TrainingState.FINISHED, self.default_trial_id)
ReportDefault(t) ==
    /\ pc[t] = "report"
    /\ updates' = UpdateModelState(updates, task_configs[t].model_id, FINISHED,
                                   default_trial_id)
    /\ \/ /\ pc' = [pc EXCEPT ![t] = "returned"]
          /\ UNCHANGED exc
       \/ /\ exc' = [exc EXCEPT ![t] = RpcError]
          /\ pc' = [pc EXCEPT ![t] = "except"]
    /\ UNCHANGED <<spawned, pid, task_configs, task_trial_map, study, cur_trial,
                   borrowed, warnings, raised, executor_starts,
                   map_writes, objective_calls, objective_returns, firstSeen, config_ids,
                   suggested, env>>

\* except Exception as e: logger.warn(e); raise e
Except(t) ==
    /\ pc[t] = "except"
    /\ warnings' = [warnings EXCEPT ![t] = Warn(@, exc[t])]
    /\ raised' = [raised EXCEPT ![t] = exc[t]]
    /\ exc' = [exc EXCEPT ![t] = NoError]
    /\ pc' = [pc EXCEPT ![t] = "raised"]
    /\ UNCHANGED <<spawned, pid, task_configs, task_trial_map, study, cur_trial,
                   borrowed, updates, executor_starts,
                   map_writes, objective_calls, objective_returns, firstSeen, config_ids,
                   suggested, env>>

\* study.optimize calls the objective for the next trial:
\* TrainingTrialObjective.__call__ up to the registry write
ObjectiveBegin(t) ==
    /\ pc[t] = "optimize"
    /\ ~BudgetSpent(study[t])
    /\ LET n == study[t].next_trial_id
           m == task_configs[t].model_id
       IN /\ study' = [study EXCEPT ![t] = StudyAsk(@)]
          /\ cur_trial' = [cur_trial EXCEPT ![t] = n]
          /\ objective_calls' = [objective_calls EXCEPT ![t] = @ + 1]
          /\ \E lr \in env.rates :
               /\ suggested' = [suggested EXCEPT ![t] = lr]
               /\ task_configs' = [task_configs EXCEPT ![t] = SetTrialConfig(@, lr, n)]
          /\ config_ids' = [config_ids EXCEPT ![t] = Append(@, TrialId(n))]
          /\ \E created \in BOOLEAN :
               IF ~created
               THEN /\ exc' = [exc EXCEPT ![t] = ModelError]
                    /\ pc' = [pc EXCEPT ![t] = "except"]
                    /\ UNCHANGED <<task_trial_map, map_writes>>
               ELSE IF MissingInner(task_trial_map, m)
               THEN /\ exc' = [exc EXCEPT ![t] = KeyError]
                    /\ pc' = [pc EXCEPT ![t] = "except"]
                    /\ UNCHANGED <<task_trial_map, map_writes>>
               ELSE /\ task_trial_map' = RegisterTrial(task_trial_map, m, n, pid[t])
                    /\ map_writes' = [map_writes EXCEPT ![t] = Append(@, <<m, IntKey(n)>>)]
                    /\ pc' = [pc EXCEPT ![t] = "objective"]
                    /\ UNCHANGED exc
    /\ UNCHANGED <<spawned, pid, borrowed, updates, warnings, raised,
                   executor_starts, objective_returns, firstSeen, env>>

\* _trial = ForecastingTrainingTrial(...); _trial.start() is entered
ObjectiveStart(t) ==
    /\ pc[t] = "objective"
    /\ \/ /\ executor_starts' = [executor_starts EXCEPT
                                    ![t] = Append(@, <<task_configs[t].trial_id, cur_trial[t]>>)]
          /\ pc' = [pc EXCEPT ![t] = "objective_running"]
          /\ UNCHANGED exc
       \/ /\ exc' = [exc EXCEPT ![t] = TrialInitError]
          /\ pc' = [pc EXCEPT ![t] = "except"]
          /\ UNCHANGED executor_starts
    /\ UNCHANGED <<spawned, pid, task_configs, task_trial_map, study, cur_trial,
                   borrowed, updates, warnings, raised,
                   map_writes, objective_calls, objective_returns, firstSeen, config_ids,
                   suggested, env>>

\* mutation: the study swallows the objective's error and goes on to the next trial
ObjectiveEnd_resume(t) ==
    /\ pc[t] = "objective_running"
    /\ \/ \E loss \in env.losses :
            /\ study' = [study EXCEPT ![t] = StudyTell(@, cur_trial[t], loss)]
            /\ firstSeen' = [firstSeen EXCEPT ![t][loss] =
                                IF @ = NoTrial THEN cur_trial[t] ELSE @]
            /\ objective_returns' = [objective_returns EXCEPT ![t] = @ + 1]
       \/ UNCHANGED <<study, firstSeen, objective_returns>>
    /\ pc' = [pc EXCEPT ![t] = "optimize"]
    /\ cur_trial' = [cur_trial EXCEPT ![t] = NoTrial]
    /\ UNCHANGED <<spawned, pid, task_configs, task_trial_map, exc,
                   borrowed, updates, warnings, raised, executor_starts,
                   map_writes, objective_calls, config_ids, suggested, env>>

\* _trial.start() returns the loss, the objective returns it and the study
\* records it; or _trial.start() raises and the study lets the error through
ObjectiveEnd(t) ==
    /\ pc[t] = "objective_running"
    /\ \/ \E loss \in env.losses :
            /\ study' = [study EXCEPT ![t] = StudyTell(@, cur_trial[t], loss)]
            /\ firstSeen' = [firstSeen EXCEPT ![t][loss] =
                                IF @ = NoTrial THEN cur_trial[t] ELSE @]
            /\ objective_returns' = [objective_returns EXCEPT ![t] = @ + 1]
            /\ pc' = [pc EXCEPT ![t] = "optimize"]
            /\ UNCHANGED exc
       \/ /\ exc' = [exc EXCEPT ![t] = TrialError]
          /\ pc' = [pc EXCEPT ![t] = "except"]
          /\ UNCHANGED <<study, firstSeen, objective_returns>>
    /\ cur_trial' = [cur_trial EXCEPT ![t] = NoTrial]
    /\ UNCHANGED <<spawned, pid, task_configs, task_trial_map,
                   borrowed, updates, warnings, raised, executor_starts,
                   map_writes, objective_calls, config_ids,
                   suggested, env>>

\* mutation: the best trial's identifier is written back into TaskConfig
\* before it is reported
ReportBest_writeback(t) ==
    /\ pc[t] = "optimize"
    /\ BudgetSpent(study[t])
    /\ task_configs' = [task_configs EXCEPT ![t].trial_id = BestTrialId(study[t])]
    /\ updates' = UpdateModelState(updates, task_configs[t].model_id, FINISHED,
                                   BestTrialId(study[t]))
    /\ \/ /\ pc' = [pc EXCEPT ![t] = "returned"]
          /\ UNCHANGED exc
       \/ /\ exc' = [exc EXCEPT ![t] = RpcError]
          /\ pc' = [pc EXCEPT ![t] = "except"]
    /\ UNCHANGED <<spawned, pid, task_trial_map, study, cur_trial,
                   borrowed, warnings, raised, executor_starts,
                   map_writes, objective_calls, objective_returns, firstSeen,
                   config_ids, suggested, env>>

\* the budget is spent: best_trial_id = ...; update_model_state(..., best_trial_id)
ReportBest(t) ==
    /\ pc[t] = "optimize"
    /\ BudgetSpent(study[t])
    /\ updates' = UpdateModelState(updates, task_configs[t].model_id, FINISHED,
                                   BestTrialId(study[t]))
    /\ \/ /\ pc' = [pc EXCEPT ![t] = "returned"]
          /\ UNCHANGED exc
       \/ /\ exc' = [exc EXCEPT ![t] = RpcError]
          /\ pc' = [pc EXCEPT ![t] = "except"]
    /\ UNCHANGED <<spawned, pid, task_configs, task_trial_map, study, cur_trial,
                   borrowed, warnings, raised, executor_starts,
                   map_writes, objective_calls, objective_returns, firstSeen, config_ids,
                   suggested, env>>

Next ==
    \E t \in Tasks :
        \/ Construct(t)
        \/ Call(t)
        \/ DirectStart(t)
        \/ DirectEnd(t)
        \/ ReportDefault(t)
        \/ ObjectiveBegin(t)
        \/ ObjectiveStart(t)
        \/ ObjectiveEnd(t)
        \/ ReportBest(t)
        \/ Except(t)

Spec == Init /\ [][Next]_vars

SpecTwo == InitTwo /\ [][Next]_vars

\* the steps of one invocation: the process keeps running, and every executor
\* run and coordinator call comes back
Run(t) ==
    \/ DirectStart(t)
    \/ DirectEnd(t)
    \/ ReportDefault(t)
    \/ ObjectiveBegin(t)
    \/ ObjectiveStart(t)
    \/ ObjectiveEnd(t)
    \/ ReportBest(t)
    \/ Except(t)

SpecFair == Init /\ [][Next]_vars /\ \A t \in Tasks : WF_vars(Run(t))

TypeOK ==
    /\ \A t \in Tasks : pc[t] \in {"new", "init_raised", "constructed", "direct",
            "direct_running", "report", "optimize", "objective",
            "objective_running", "except", "returned", "raised"}
    /\ \A t \in Tasks : study[t].next_trial_id \in 0..N_TRIALS

\* ------------------------------------------------------------- properties
UpdatesOf(t) == SelectSeq(updates, LAMBDA u : u.model_id = t)
WritesOf(t)  == map_writes[t]
Tuning(t)    == task_configs[t].tuning

\* C1: a direct-mode task (tuning = false) whose executor and coordinator call
\* both succeed has, once constructed and invoked, written exactly one
\* registry entry, task_trial_map[model_id]['tid_0'] = its process id, and
\* called update_model_state exactly once, with (model_id, FINISHED, 'tid_0').
DirectRunRegistersAndReportsOnce ==
    \A t \in Tasks :
        (~Tuning(t) /\ pc[t] = "returned") =>
            /\ WritesOf(t) = << <<t, StrKey("tid_0")>> >>
            /\ task_trial_map[t] = {[key |-> StrKey("tid_0"), pid |-> pid[t]]}
            /\ UpdatesOf(t) = << [model_id |-> t, state |-> "FINISHED",
                                  trial_id |-> "tid_0"] >>

DirectRunReturned ==
    \E t \in Tasks : ~Tuning(t) /\ pc[t] = "returned" /\ raised[t] = NoError

\* C2: in a tuning task in which no trial fails, one invocation calls the
\* objective exactly 20 times and calls update_model_state exactly once, and
\* only after the 20th objective invocation has returned.
TuningRunsTwentyTrialsThenReportsOnce ==
    \A t \in Tasks :
        Tuning(t) =>
            /\ UpdatesOf(t) # <<>> =>
                   /\ objective_calls[t] = 20
                   /\ objective_returns[t] = 20
                   /\ Len(UpdatesOf(t)) = 1
            /\ (pc[t] \in {"returned", "raised"} /\ raised[t] \in {NoError, RpcError}) =>
                   /\ objective_calls[t] = 20
                   /\ Len(UpdatesOf(t)) = 1

TuningRunReturned ==
    \E t \in Tasks : /\ Tuning(t) /\ pc[t] = "returned"
                     /\ objective_returns[t] = 20 /\ Len(UpdatesOf(t)) = 1

\* the smallest loss returned so far, and the first trial that returned it
SeenLosses(t) == {v \in Losses : firstSeen[t][v] # NoTrial}
MinSeen(t)    == CHOOSE v \in SeenLosses(t) : \A w \in SeenLosses(t) : v <= w
FirstBest(t)  == firstSeen[t][MinSeen(t)]

\* C3: in tuning mode the trial identifier reported to the coordinator is
\* 'tid_<k>', k being the sequence number of the first trial that returned the
\* minimum loss of the run; a run whose losses start 2, 1, ... (minimum first
\* met at trial 1) reports (model_id, FINISHED, 'tid_1').
ReportedTrialIsFirstMinimum ==
    \A t \in Tasks :
        (Tuning(t) /\ UpdatesOf(t) # <<>>) =>
            /\ UpdatesOf(t)[1].trial_id = "tid_" \o ToString(FirstBest(t))
            /\ FirstBest(t) \in 0..19
            /\ firstSeen[t][1] = 1 =>
                   UpdatesOf(t)[1] = [model_id |-> t, state |-> "FINISHED",
                                      trial_id |-> "tid_1"]

MinimumAtTrialOneReported ==
    \E t \in Tasks : /\ Tuning(t) /\ UpdatesOf(t) # <<>>
                     /\ firstSeen[t][2] = 0 /\ firstSeen[t][1] = 1

\* C4: when the trial executor's run raises, in direct mode or in any trial of
\* tuning mode, update_model_state is not called in that invocation, exactly
\* one warning line is logged, and that same error reaches the caller.
ExecutorErrorStep ==
    \A t \in Tasks :
        (exc[t] = "TrialError" /\ pc'[t] # pc[t]) =>
            /\ pc'[t] = "raised"
            /\ raised'[t] = "TrialError"
            /\ warnings'[t] = <<"TrialError">>

ExecutorErrorNeverReports ==
    /\ [](\A t \in Tasks :
            /\ exc[t] = "TrialError" => (UpdatesOf(t) = <<>> /\ warnings[t] = <<>>)
            /\ raised[t] = "TrialError" =>
                   (UpdatesOf(t) = <<>> /\ warnings[t] = <<"TrialError">>
                        /\ pc[t] = "raised"))
    /\ [][ExecutorErrorStep]_vars

ExecutorErrorReachedCaller ==
    \E t \in Tasks : /\ raised[t] = "TrialError" /\ pc[t] = "raised"
                     /\ Tuning(t) /\ objective_returns[t] >= 3

\* C5: invoking one objective with the trial sequence numbers 0 and 1 leaves
\* two registry entries under the model identifier whose keys are the trial
\* identifiers 'tid_0' and 'tid_1' (the strings put into TaskConfig and
\* reported to the coordinator), the second write not replacing the first.
ObjectiveRegistersUnderTrialIds ==
    \A t \in Tasks :
        (Tuning(t) /\ objective_returns[t] >= 2) =>
            /\ {StrKey("tid_0"), StrKey("tid_1")} \subseteq DictKeys(task_trial_map[t])
            /\ Cardinality(task_trial_map[t]) >= 2

\* C6 as stated: every error that reaches the orchestrator's caller has been
\* logged exactly once, as a warning, before it got there.
EveryErrorLoggedBeforeCaller ==
    \A t \in Tasks : raised[t] # NoError => warnings[t] = <<raised[t]>>

HandlerStep ==
    \A t \in Tasks :
        (exc[t] # NoError /\ pc'[t] # pc[t]) =>
            /\ pc'[t] = "raised"
            /\ raised'[t] = exc[t]
            /\ warnings'[t] = <<exc[t]>>

\* C6, amended: an error raised while the invocation (__call__) runs (the
\* executor's run, the search, the coordinator report) is logged exactly once
\* and re-raised unchanged; an error raised at construction (__init__) reaches
\* the caller without any log line.
InvocationErrorsLoggedConstructionErrorsNot ==
    /\ [](\A t \in Tasks :
            /\ pc[t] = "raised" => (raised[t] # NoError /\ warnings[t] = <<raised[t]>>)
            /\ pc[t] = "init_raised" => (raised[t] # NoError /\ warnings[t] = <<>>)
            /\ pc[t] # "raised" => warnings[t] = <<>>
            /\ raised[t] # NoError => pc[t] \in {"raised", "init_raised"})
    /\ [][HandlerStep]_vars

SearchErrorLoggedAndRaised ==
    \E t \in Tasks : /\ Tuning(t) /\ pc[t] = "raised" /\ raised[t] = "KeyError"
                     /\ warnings[t] = <<"KeyError">>

\* C7 as stated: an orchestrator that is constructed and not invoked holds the
\* client handle and has left TaskConfig and the registry as they were.
ConstructionOnlyBorrowsClient ==
    \A t \in Tasks :
        pc[t] = "constructed" =>
            /\ borrowed[t]
            /\ task_configs[t].trial_id = Unset
            /\ t \in DOMAIN task_trial_map => task_trial_map[t] = {}

InvocationFrame ==
    \A t \in Tasks :
        (~Tuning(t) /\ pc[t] \in {"constructed", "direct", "direct_running",
                                  "report", "except"}) =>
            /\ task_configs'[t] = task_configs[t]
            /\ task_trial_map'[t] = task_trial_map[t]

\* C7, amended: the direct-mode side effects happen at construction: a
\* direct-mode orchestrator that is constructed and not invoked holds the
\* client handle, has trial_id = 'tid_0' in TaskConfig and its process id in
\* the registry under (model_id, 'tid_0'), and its invocation changes neither;
\* a tuning-mode construction leaves TaskConfig and the registry unchanged.
DirectSideEffectsAtConstruction ==
    /\ [](\A t \in Tasks :
            pc[t] = "constructed" =>
                /\ borrowed[t]
                /\ ~Tuning(t) =>
                       /\ task_configs[t].trial_id = "tid_0"
                       /\ t \in DOMAIN task_trial_map
                       /\ task_trial_map[t] = {[key |-> StrKey("tid_0"), pid |-> pid[t]]}
                /\ Tuning(t) =>
                       /\ task_configs[t].trial_id = Unset
                       /\ t \in DOMAIN task_trial_map => task_trial_map[t] = {})
    /\ [][InvocationFrame]_vars

DirectConstructedNotInvoked ==
    \E t \in Tasks : /\ ~Tuning(t) /\ pc[t] = "constructed"
                     /\ task_trial_map[t] # {} /\ updates = <<>>

\* C8: update_model_state is called at most once per invocation and always
\* with the state FINISHED; when the call raises it is not repeated, no other
\* state is reported, and the error is logged once and re-raised.
ReportsFinishedAtMostOnce ==
    /\ \A i \in 1..Len(updates) : updates[i].state = "FINISHED"
    /\ \A t \in Tasks :
        /\ Len(UpdatesOf(t)) <= 1
        /\ exc[t] = "RpcError" => (Len(UpdatesOf(t)) = 1 /\ warnings[t] = <<>>)
        /\ raised[t] = "RpcError" =>
               /\ pc[t] = "raised"
               /\ Len(UpdatesOf(t)) = 1
               /\ warnings[t] = <<"RpcError">>

CoordinatorErrorReachedCaller ==
    \E t \in Tasks : raised[t] = "RpcError" /\ pc[t] = "raised"

\* C9: the trial identifiers that the objective invocations of one tuning run
\* write into TaskConfig are pairwise distinct, 'tid_<n>' for the successive
\* sequence numbers n, and no two trials share a registry key.
TuningTrialIdsDistinct ==
    \A t \in Tasks :
        Tuning(t) =>
            /\ \A i, j \in 1..Len(config_ids[t]) :
                   i # j => config_ids[t][i] # config_ids[t][j]
            /\ \A i \in 1..Len(config_ids[t]) :
                   config_ids[t][i] = "tid_" \o ToString(i - 1)
            /\ t \in DOMAIN task_trial_map =>
                   Cardinality(DictKeys(task_trial_map[t])) = Len(WritesOf(t))

AllTrialIdsWritten ==
    \E t \in Tasks : /\ Tuning(t) /\ Len(config_ids[t]) = 20
                     /\ Cardinality(task_trial_map[t]) = 20

\* the registry holds this process's id for a started trial, under the
\* trial's identifier or under its sequence number
HasEntryFor(t, started) ==
    /\ t \in DOMAIN task_trial_map
    /\ \E e \in task_trial_map[t] :
         /\ e.pid = pid[t]
         /\ \/ e.key = StrKey(started[1])
            \/ started[2] # NoTrial /\ e.key = IntKey(started[2])

RegistryGrows ==
    \A m \in DOMAIN task_trial_map : task_trial_map[m] \subseteq task_trial_map'[m]

\* C10: in either mode a trial's registry entry is written before that trial's
\* executor is started, it is written once, and no later step removes or
\* changes an entry: the set of registry entries only grows.
RegistryWrittenBeforeStartAndKept ==
    /\ [](/\ \A t \in Tasks : \A i \in 1..Len(executor_starts[t]) :
                HasEntryFor(t, executor_starts[t][i])
          /\ \A t \in Tasks : \A i, j \in 1..Len(map_writes[t]) :
                i # j => map_writes[t][i] # map_writes[t][j])
    /\ [][RegistryGrows]_vars

SecondTrialRunning ==
    \E t \in Tasks : /\ Tuning(t) /\ pc[t] = "objective_running"
                     /\ Len(executor_starts[t]) = 2
                     /\ Cardinality(task_trial_map[t]) = 2

\* the registry keys of the trials 0..k
TrialKeys(k) == {IntKey(n) : n \in 0..k}

SearchFailed(t) ==
    Tuning(t) /\ (exc[t] = "TrialError" \/ raised[t] = "TrialError")

\* C11 as stated: after an executor failure in trial k of a tuning run, the
\* registry holds the entries of the trials 0..k only, fewer than 20 trials
\* have been run, and nothing has been reported.
FailedSearchRanFewerThanTwenty ==
    \A t \in Tasks :
        SearchFailed(t) =>
            /\ DictKeys(task_trial_map[t]) = TrialKeys(objective_calls[t] - 1)
            /\ Len(executor_starts[t]) < 20
            /\ UpdatesOf(t) = <<>>

AfterFailureStep ==
    \A t \in Tasks :
        SearchFailed(t) =>
            /\ objective_calls'[t] = objective_calls[t]
            /\ executor_starts'[t] = executor_starts[t]
            /\ task_trial_map'[t] = task_trial_map[t]
            /\ study'[t] = study[t]
            /\ UpdatesOf(t)' = <<>>

\* C11, amended: an executor failure in trial k of a tuning run aborts the
\* search: no objective invocation is started after the failing one, the
\* registry holds the entries of the trials 0..k only, at most 20 trials have
\* been started (k + 1, which is 20 when the last trial fails) and fewer than
\* 20 have completed, and no best trial is computed or reported.
FailedSearchAborts ==
    /\ [](\A t \in Tasks :
            /\ Tuning(t) => objective_calls[t] <= objective_returns[t] + 1
            /\ SearchFailed(t) =>
                   /\ pc[t] \in {"except", "raised"}
                   /\ DictKeys(task_trial_map[t]) = TrialKeys(objective_calls[t] - 1)
                   /\ Len(executor_starts[t]) = objective_calls[t]
                   /\ objective_calls[t] <= 20
                   /\ objective_returns[t] = objective_calls[t] - 1
                   /\ objective_returns[t] < 20
                   /\ study[t].next_trial_id = objective_calls[t]
                   /\ UpdatesOf(t) = <<>>)
    /\ [][AfterFailureStep]_vars

FifthTrialFailed ==
    \E t \in Tasks : /\ SearchFailed(t) /\ pc[t] = "raised"
                     /\ objective_calls[t] = 5
                     /\ DictKeys(task_trial_map[t]) = TrialKeys(4)

NextObjectiveStep ==
    \A t \in Tasks :
        objective_calls'[t] # objective_calls[t] =>
            /\ objective_returns[t] = objective_calls[t]
            /\ pc[t] = "optimize"

\* C12: the trials of one task run one after the other: the objective for
\* trial n+1 is invoked only after the invocation for trial n has returned, at
\* most one executor of the task is running at any moment, and while it runs
\* TaskConfig holds the trial_id and the learning_rate of that trial.
TrialsRunOneAtATime ==
    /\ [](\A t \in Tasks :
            /\ objective_calls[t] - objective_returns[t] \in {0, 1}
            /\ Len(executor_starts[t]) - objective_returns[t] \in {0, 1}
            /\ pc[t] = "objective_running" =>
                   /\ cur_trial[t] = objective_calls[t] - 1
                   /\ executor_starts[t][Len(executor_starts[t])][2] = cur_trial[t]
                   /\ task_configs[t].trial_id = "tid_" \o ToString(cur_trial[t])
                   /\ task_configs[t].learning_rate = suggested[t]
                   /\ suggested[t] \in 1..MaxLR)
    /\ [][NextObjectiveStep]_vars

EighthTrialRunning ==
    \E t \in Tasks : /\ pc[t] = "objective_running" /\ cur_trial[t] = 7
                     /\ task_configs[t].trial_id = "tid_7"
                     /\ task_configs[t].learning_rate = 2

\* C13: at every moment of a tuning run, all registry entries written by the
\* run under its model identifier hold one process identifier, that of the
\* process running the orchestrator.
TuningEntriesHoldOwnPid ==
    \A t \in Tasks :
        (Tuning(t) /\ t \in DOMAIN task_trial_map) =>
            /\ \A e \in task_trial_map[t] : e.pid = pid[t]
            /\ Cardinality(task_trial_map[t]) = Len(WritesOf(t))

ThreeTrialsRegistered ==
    \E t \in Tasks : /\ Tuning(t) /\ pc[t] = "optimize"
                     /\ t \in DOMAIN task_trial_map
                     /\ Cardinality(task_trial_map[t]) = 3
                     /\ \A e \in task_trial_map[t] : e.pid = pid[t]

\* the keys written under model m, by whichever task
WrittenKeys(m) ==
    UNION {{map_writes[t][i][2] :
                i \in {j \in 1..Len(map_writes[t]) : map_writes[t][j][1] = m}} :
           t \in Tasks}

\* C14: two orchestrators that run as separate processes with distinct model
\* identifiers on one registry with atomic per-(task, trial) writes: under
\* every interleaving each writes only under its own model identifier (every
\* entry under a model holds the process id of that model's task), no entry is
\* overwritten or lost through the other task, and when both have finished the
\* registry holds every entry of both.
TwoTasksKeepTheirEntries ==
    /\ [](\A m \in DOMAIN task_trial_map :
            /\ \A i \in 1..Len(map_writes[m]) : map_writes[m][i][1] = m
            /\ \A e \in task_trial_map[m] : e.pid = pid[m]
            /\ DictKeys(task_trial_map[m]) = WrittenKeys(m)
            /\ Cardinality(task_trial_map[m]) = Len(WritesOf(m))
            /\ (pc[m] = "returned" /\ Tuning(m)) =>
                   DictKeys(task_trial_map[m]) = TrialKeys(19)
            /\ (pc[m] = "returned" /\ ~Tuning(m)) =>
                   DictKeys(task_trial_map[m]) = {StrKey("tid_0")})
    /\ [][RegistryGrows]_vars

BothTuningTasksReturned ==
    /\ \A t \in Tasks : Tuning(t) /\ pc[t] = "returned"
    /\ \A t \in Tasks : Cardinality(task_trial_map[t]) = 20

\* C15: given that every executor run and the coordinator call come back, every
\* invocation of the orchestrator ends, having reported FINISHED or raising,
\* and a tuning invocation starts at most 20 trials on the way.
InvocationTerminates ==
    /\ [](\A t \in Tasks :
            /\ objective_calls[t] <= 20
            /\ Len(executor_starts[t]) <= 20
            /\ pc[t] = "returned" =>
                   (raised[t] = NoError /\ Len(UpdatesOf(t)) = 1
                        /\ UpdatesOf(t)[1].state = "FINISHED")
            /\ pc[t] = "raised" => raised[t] # NoError)
    /\ \A t \in Tasks :
         (pc[t] \in {"direct", "optimize"}) ~> (pc[t] \in {"returned", "raised"})

BudgetSpentThenRaised ==
    \E t \in Tasks : /\ Tuning(t) /\ pc[t] = "raised" /\ raised[t] = "RpcError"
                     /\ objective_calls[t] = 20 /\ Len(executor_starts[t]) = 20

\* C16: when a tuning run has completed normally, TaskConfig holds the
\* trial_id and the learning_rate of the last trial run (sequence number 19),
\* not those of the winner: nothing writes the best trial back, so
\* TaskConfig's trial_id differs from the identifier reported to the
\* coordinator whenever the best trial is not the last one.
ConfigKeepsLastTrial ==
    \A t \in Tasks :
        (Tuning(t) /\ pc[t] = "returned") =>
            /\ task_configs[t].trial_id = "tid_19"
            /\ task_configs[t].learning_rate = suggested[t]
            /\ config_ids[t][Len(config_ids[t])] = task_configs[t].trial_id
            /\ (FirstBest(t) # 19) <=>
                   (task_configs[t].trial_id # UpdatesOf(t)[1].trial_id)

WinnerIsNotLastTrial ==
    \E t \in Tasks : /\ Tuning(t) /\ pc[t] = "returned"
                     /\ FirstBest(t) = 3
                     /\ UpdatesOf(t)[1].trial_id = "tid_3"
                     /\ task_configs[t].trial_id = "tid_19"

NoInner(t) == t \in spawned /\ t \notin DOMAIN task_trial_map

NoInnerStep ==
    /\ DOMAIN task_trial_map' = DOMAIN task_trial_map
    /\ \A t \in Tasks :
         (NoInner(t) /\ pc'[t] # pc[t]) => task_trial_map' = task_trial_map

\* C17: neither the orchestrator nor the objective creates the registry's
\* inner mapping of a model: when the task's model identifier has none, the
\* registry write fails and leaves the registry unchanged, no executor is ever
\* started (a direct-mode task fails in its construction, a tuning-mode task
\* in its first objective invocation) and the coordinator is never called.
MissingInnerMappingStopsTask ==
    /\ [](\A t \in Tasks :
            NoInner(t) =>
                /\ executor_starts[t] = <<>>
                /\ map_writes[t] = <<>>
                /\ UpdatesOf(t) = <<>>
                /\ ~Tuning(t) =>
                       /\ pc[t] \in {"new", "init_raised"}
                       /\ raised[t] \in {NoError, "KeyError", "TrialInitError"}
                /\ Tuning(t) =>
                       /\ pc[t] \in {"new", "constructed", "optimize", "except", "raised"}
                       /\ objective_calls[t] <= 1
                       /\ objective_returns[t] = 0
                       /\ objective_calls[t] = 1 => pc[t] \in {"except", "raised"}
                       /\ raised[t] \in {NoError, "KeyError", "ModelError"})
    /\ [][NoInnerStep]_vars

FirstObjectiveHitMissingMapping ==
    \E t \in Tasks : /\ NoInner(t) /\ Tuning(t) /\ pc[t] = "raised"
                     /\ raised[t] = "KeyError" /\ objective_calls[t] = 1

====
